---- MODULE Spec2Model ----
(***************************************************************************)
(* Route composition of the ItineraryPlanner component                     *)
(* (src/src/components/ItineraryPlanner.tsx): the haversine distance, the  *)
(* greedy ordering loop of optimizeRoute and the route synthesis of        *)
(* generateRoute.                                                          *)
(*                                                                         *)
(* Units.  Latitudes and longitudes are integers counting hundredths of a  *)
(* degree (the mock places of ItineraryPanel sit at offsets of 0.01        *)
(* degree from the user location), taken within a few hundredths of a      *)
(* degree of latitude 0, longitude 0.  Lengths are integers counting       *)
(* decimetres, so that Math.round(distance * 1000) and toFixed(1) really   *)
(* round.  Durations are integers counting 1/DurScale of a minute, which   *)
(* represents distance / speed * 60 exactly for the three speeds.          *)
(***************************************************************************)
EXTENDS Integers, Sequences, FiniteSets, Bags, TLC

(***************************************************************************)
(* Bounds of the model.                                                    *)
(***************************************************************************)
\* Coordinates range over 0..GridMax hundredths of a degree.
GridMax == 1

\* Most places in the places prop of the planner.
MaxPlaces == 2

\* Most handler calls awaiting a timer at the same time.
MaxInFlight == 2

\* Most places selected when the ordering loop starts.
MaxStops == 3

\* Most places after the origin in a point sequence given to generateRoute.
MaxRouteStops == 2

Grid == 0..GridMax

(***************************************************************************)
(* Number helpers.                                                         *)
(***************************************************************************)
Max(a, b) == IF a >= b THEN a ELSE b

\* Math.sqrt on a non-negative integer, truncated: bisection on lo..hi.
RECURSIVE SqrtBetween(_, _, _)
SqrtBetween(x, lo, hi) ==
  IF lo >= hi THEN lo
  ELSE LET mid == (lo + hi + 1) \div 2
       IN IF mid * mid <= x THEN SqrtBetween(x, mid, hi)
                            ELSE SqrtBetween(x, lo, mid - 1)

SqrtScale == 10000

\* SqrtTable[a] = SqrtScale * sqrt(a), truncated, for every squared grid
\* offset a.
SqrtTable ==
  [a \in 0..(2 * GridMax * GridMax) |->
     SqrtBetween(a * SqrtScale * SqrtScale, 0, 46340)]

\* Math.round on a non-negative value x counted in 1/scale: halves go up.
MathRound(x, scale) == (x + scale \div 2) \div scale

(***************************************************************************)
(* calculateDistance: the haversine formula with R = 6371 km.  Within a    *)
(* few hundredths of a degree of (0, 0) the cosines are 1 and sin, atan2   *)
(* are linear to within 1e-7, so R * c is R * sqrt(dLat^2 + dLon^2) with   *)
(* the differences in radians.  The result counts decimetres.              *)
(***************************************************************************)
R == 6371

PiScaled == 31416

DmPerKm == 10000

\* R * PI / 180 for one grid unit (0.01 degree), in decimetres.
DmPerGridUnit == (R * PiScaled) \div 18000

calculateDistance(lat1, lon1, lat2, lon2) ==
  LET dLat == lat2 - lat1
      dLon == lon2 - lon1
      a    == dLat * dLat + dLon * dLon
      c    == SqrtTable[a]
  IN (DmPerGridUnit * c) \div SqrtScale

(***************************************************************************)
(* Places and travel modes.                                                *)
(***************************************************************************)
\* Display names of the mock places served by ItineraryPanel.
PlaceNames ==
  << "Golden Gate Bridge", "Local Cafe", "City Museum", "Central Market",
     "Sunset Restaurant", "City Park", "Historic District" >>

\* interface Place: id, name and location {lat, lon}.
Place(k, lat, lon) ==
  [id |-> k, name |-> PlaceNames[k], lat |-> lat, lon |-> lon]

\* The origin point built by generateItinerary and optimizeRoute; its id
\* 'user' is 0 here.
UserPoint(lat, lon) ==
  [id |-> 0, name |-> "Your Location", lat |-> lat, lon |-> lon]

\* The values of the transport mode selector.
SelectorModes == {"driving-car", "cycling-regular", "foot-walking"}

\* generateRoute takes mode: string.  Besides the selector's values the
\* model passes the bare tokens "driving", "cycling", "walking" and one
\* string that names no mode at all.
ModeInputs == SelectorModes \cup {"driving", "cycling", "walking", "hovercraft"}

(***************************************************************************)
(* generateRoute.                                                          *)
(***************************************************************************)
\* Route.duration and RouteStep.duration count minutes; the unrounded
\* durations count 1/DurScale minute.
DurScale == 20000

MinPerHour == 60

\* SpeedOf with the bare tokens recognised as well.
SpeedOfBareTokens(mode) ==
  IF mode \in {"foot-walking", "walking"} THEN 5
  ELSE IF mode \in {"cycling-regular", "cycling"} THEN 15
  ELSE 40

\* SpeedOf with the cycling and walking speeds exchanged.
SpeedOfSwapped(mode) ==
  IF mode = "foot-walking" THEN 15
  ELSE IF mode = "cycling-regular" THEN 5
  ELSE 40

\* let speed = 40; if (mode === 'cycling-regular') speed = 15;
\* if (mode === 'foot-walking') speed = 5;
SpeedOf(mode) ==
  IF mode = "foot-walking" THEN 5
  ELSE IF mode = "cycling-regular" THEN 15
  ELSE 40

\* const duration = (distance / speed) * 60, in 1/DurScale minute.
LegDuration(distance, mode) ==
  (distance * ((MinPerHour * DurScale) \div DmPerKm)) \div SpeedOf(mode)

\* turf.length(line, {units: 'kilometers'}) of the two-point line: the
\* great-circle length of its only segment, in decimetres.
turfLength(from, to) == calculateDistance(from.lat, from.lon, to.lat, to.lon)

\* One sample every 500 m.
SampleSpacing == 5000

\* Math.max(5, Math.floor(lineDistance / 0.5))
SampleSteps(lineDistance) == Max(5, lineDistance \div SampleSpacing)

\* A coordinate [lon, lat] as << lon * den, lat * den, den >>.
Coord(lon, lat) == << lon, lat, 1 >>

\* turf.along(line, lineDistance * (j / n)) on the two-point line from-to:
\* distance 0 returns the first vertex, the full length returns the last
\* vertex, anything between is interpolated on the segment.
turfAlong(from, to, lineDistance, j, n) ==
  IF lineDistance * j = 0 THEN Coord(from.lon, from.lat)
  ELSE IF j = n THEN Coord(to.lon, to.lat)
  ELSE << from.lon * n + (to.lon - from.lon) * j,
          from.lat * n + (to.lat - from.lat) * j, n >>

\* for (let j = 0; j <= steps; j++) segmentCoordinates.push(along(...))
SegmentCoordinates(from, to, lineDistance, n) ==
  [j \in 1..(n + 1) |-> turfAlong(from, to, lineDistance, j - 1, n)]

\* JavaScript values that the identifier `steps` can be bound to.
ArrayValue(items) == [kind |-> "array", items |-> items, num |-> 0]

NumberValue(n) == [kind |-> "number", items |-> << >>, num |-> n]

\* The binding that `steps` names at line 243.  The block of the for loop
\* declares its own `const steps` (line 225, the sample count), which
\* shadows the `const steps: RouteStep[]` of the function body (line 193)
\* everywhere in that block.
StepsInLoopBody(functionSteps, blockSteps) == blockSteps

\* The step record pushed at lines 243-251.
RouteStep(from, to, distance, duration) ==
  [instruction   |-> << "Head to", to.name >>,
   distance      |-> MathRound(distance, DmPerKm \div 1000),
   duration      |-> MathRound(duration, DurScale),
   startLocation |-> << from.lat, from.lon >>,
   endLocation   |-> << to.lat, to.lon >>,
   fromPlace     |-> from.name,
   toPlace       |-> to.name]

\* The locals of generateRoute before the loop (lines 192-195, i = 0).
InitialFrame ==
  [i |-> 0, coordinates |-> << >>, steps |-> << >>,
   totalDistance |-> 0, totalDuration |-> 0]

\* LoopCond running one index too far.
LoopCondInclusive(i, points) == i < Len(points)

\* i < points.length - 1
LoopCond(i, points) == i < Len(points) - 1

\* One pass through the loop body (lines 199-251) from the locals f: the
\* locals after it and whether it threw.
LegBody(points, mode, f) ==
  IF f.i + 2 > Len(points)
  THEN \* `to` is undefined: to.location throws
       [thrown |-> TRUE, frame |-> f]
  ELSE
    LET from         == points[f.i + 1]
        to           == points[f.i + 2]
        distance     == calculateDistance(from.lat, from.lon, to.lat, to.lon)
        duration     == LegDuration(distance, mode)
        lineDistance == turfLength(from, to)
        blockSteps   == NumberValue(SampleSteps(lineDistance))
        segment      == SegmentCoordinates(from, to, lineDistance,
                                           blockSteps.num)
        g            == [f EXCEPT
                           !.totalDistance = @ + distance,
                           !.totalDuration = @ + duration,
                           !.coordinates   =
                              IF f.i = 0 THEN @ \o segment
                                         ELSE @ \o Tail(segment)]
        target       == StepsInLoopBody(ArrayValue(f.steps), blockSteps)
    IN IF target.kind = "array"
       THEN [thrown |-> FALSE,
             frame  |-> [g EXCEPT
                           !.steps = Append(target.items,
                                       RouteStep(from, to, distance, duration)),
                           !.i = @ + 1]]
       ELSE \* a number has no push method: TypeError
            [thrown |-> TRUE, frame |-> g]

\* The Route returned at lines 254-259; distance counts tenths of a
\* kilometre (parseFloat(totalDistance.toFixed(1))).
RouteOf(f) ==
  [distance    |-> MathRound(f.totalDistance, DmPerKm \div 10),
   duration    |-> MathRound(f.totalDuration, DurScale),
   steps       |-> f.steps,
   coordinates |-> f.coordinates]

\* Placeholder in the route field of a call that threw.
NoRoute ==
  [distance |-> 0 - 1, duration |-> 0 - 1, steps |-> << >>,
   coordinates |-> << >>]

RECURSIVE RouteLoop(_, _, _)
RouteLoop(points, mode, f) ==
  IF LoopCond(f.i, points)
  THEN LET r == LegBody(points, mode, f)
       IN IF r.thrown
          THEN [status |-> "thrown", error |-> "TypeError",
                route |-> NoRoute, frame |-> r.frame]
          ELSE RouteLoop(points, mode, r.frame)
  ELSE [status |-> "returned", error |-> "none",
        route |-> RouteOf(f), frame |-> f]

\* generateRoute(points, mode): how the call ends ("returned" with the
\* Route, or "thrown"), and the locals at that moment.
generateRoute(points, mode) == RouteLoop(points, mode, InitialFrame)

(***************************************************************************)
(* The ordering loop of optimizeRoute (lines 109-139).                     *)
(***************************************************************************)
\* Closer with <= for <.
CloserOrEqual(distance, closestDistance) == distance <= closestDistance

\* if (distance < closestDistance)
Closer(distance, closestDistance) == distance < closestDistance

\* The for loop of lines 122-132 from index i on (indices count from 1
\* here): the index of the closest place found.
RECURSIVE ScanClosest(_, _, _, _, _)
ScanClosest(current, remaining, i, closestIdx, closestDistance) ==
  IF i > Len(remaining) THEN closestIdx
  ELSE LET distance == calculateDistance(current.lat, current.lon,
                                         remaining[i].lat, remaining[i].lon)
       IN IF Closer(distance, closestDistance)
          THEN ScanClosest(current, remaining, i + 1, i, distance)
          ELSE ScanClosest(current, remaining, i + 1, closestIdx,
                           closestDistance)

\* Lines 116-132: closestIdx after the scan of the whole pool.
ClosestIdx(current, remaining) ==
  ScanClosest(current, remaining, 2, 1,
              calculateDistance(current.lat, current.lon,
                                remaining[1].lat, remaining[1].lon))

\* RemoveAt filtering by location instead of by index.
RemoveSameLocation(seq, idx) ==
  LET Elsewhere(p) == ~(p.lat = seq[idx].lat /\ p.lon = seq[idx].lon)
  IN SelectSeq(seq, Elsewhere)

\* RemoveAt dropping everything up to the index as well.
RemoveThrough(seq, idx) ==
  [k \in 1..(Len(seq) - idx) |-> seq[k + idx]]

\* remainingPlaces.filter((_, idx) => idx !== closestIdx)
RemoveAt(seq, idx) ==
  [k \in 1..(Len(seq) - 1) |-> IF k < idx THEN seq[k] ELSE seq[k + 1]]

\* One pass through the while loop (lines 115-138) from the locals
\* l = [remainingPlaces, orderedPlaces, currentPoint].
OrderBody(l) ==
  LET closestIdx == ClosestIdx(l.currentPoint, l.remainingPlaces)
      nextPlace  == l.remainingPlaces[closestIdx]
  IN [remainingPlaces |-> RemoveAt(l.remainingPlaces, closestIdx),
      orderedPlaces   |-> Append(l.orderedPlaces, nextPlace),
      currentPoint    |-> [lat |-> nextPlace.lat, lon |-> nextPlace.lon]]

\* The whole while loop: the locals when remainingPlaces is empty.
RECURSIVE OrderLoop(_)
OrderLoop(l) ==
  IF Len(l.remainingPlaces) > 0 THEN OrderLoop(OrderBody(l)) ELSE l

(***************************************************************************)
(* State.                                                                  *)
(***************************************************************************)
VARIABLES
  points,           \* generateRoute: the point sequence of the calls
  lastCall,         \* generateRoute: mode and outcome of the latest call
  origin,           \* ordering loop: userLocation as {lat, lon}
  stops,            \* ordering loop: selectedPlaces when the loop starts
  remainingPlaces,  \* ordering loop: local remainingPlaces
  orderedPlaces,    \* ordering loop: local orderedPlaces
  currentPoint,     \* ordering loop: local currentPoint
  orderPc,          \* ordering loop: "start", "loop" or "done"
  userLocation,     \* planner: prop userLocation, NullLocation for null
  places,           \* planner: prop places
  onRouteGenerated, \* planner: whether the prop onRouteGenerated is given
  selectedPlaces,   \* planner: state selectedPlaces
  optimizedRoute,   \* planner: state optimizedRoute, NullRoute for null
  isGenerating,     \* planner: state isGenerating
  isOptimizing,     \* planner: state isOptimizing
  isSubmitting,     \* planner: state isSubmitting
  showDirections,   \* planner: state showDirections
  tasks,            \* planner: handler calls awaiting a timer, in the
                    \*          order in which the timers were set
  notified,         \* planner: the Route last passed to onRouteGenerated
  lastEvent         \* planner: "generate" or "optimize" when the event
                    \*          handled last was a click on that button,
                    \*          else "other"

routeVars == << points, lastCall >>

orderVars ==
  << origin, stops, remainingPlaces, orderedPlaces, currentPoint, orderPc >>

plannerVars ==
  << userLocation, places, onRouteGenerated, selectedPlaces, optimizedRoute,
     isGenerating, isOptimizing, isSubmitting, showDirections, tasks,
     notified, lastEvent >>

vars == << routeVars, orderVars, plannerVars >>

\* Sequences of at most n places on the grid; the k-th has id k.
RECURSIVE PlaceSeqsOfLen(_)
PlaceSeqsOfLen(n) ==
  IF n = 0 THEN { << >> }
  ELSE { Append(s, Place(n, lat, lon)) :
           s \in PlaceSeqsOfLen(n - 1), lat \in Grid, lon \in Grid }

PlaceSeqsUpTo(max) == UNION { PlaceSeqsOfLen(n) : n \in 0..max }

\* No call of generateRoute yet.
NoCall ==
  [mode |-> "", status |-> "idle", error |-> "none", route |-> NoRoute,
   frame |-> InitialFrame]

\* Values of the ordering loop's variables while generateRoute is studied.
OrderIdle ==
  /\ origin = [lat |-> 0, lon |-> 0]
  /\ stops = << >>
  /\ remainingPlaces = << >>
  /\ orderedPlaces = << >>
  /\ currentPoint = [lat |-> 0, lon |-> 0]
  /\ orderPc = "done"

\* Values of generateRoute's variables while the ordering loop is studied.
RouteIdle ==
  /\ points = << >>
  /\ lastCall = NoCall

\* userLocation = null.
NullLocation == [known |-> FALSE, lat |-> 0, lon |-> 0]

\* optimizedRoute = null.
NullRoute == NoRoute

\* Values of the planner's variables while its functions are studied alone.
PlannerIdle ==
  /\ userLocation = NullLocation
  /\ places = << >>
  /\ onRouteGenerated = FALSE
  /\ selectedPlaces = << >>
  /\ optimizedRoute = NullRoute
  /\ isGenerating = FALSE
  /\ isOptimizing = FALSE
  /\ isSubmitting = FALSE
  /\ showDirections = FALSE
  /\ tasks = << >>
  /\ notified = NullRoute
  /\ lastEvent = "other"

(***************************************************************************)
(* generateRoute as a function of its arguments: the point sequence is     *)
(* empty or an origin followed by at most MaxRouteStops places, the mode any    *)
(* string of ModeInputs.                                                   *)
(***************************************************************************)
RouteInit ==
  /\ points \in { << >> } \cup
       { << UserPoint(lat, lon) >> \o s :
           lat \in Grid, lon \in Grid, s \in PlaceSeqsUpTo(MaxRouteStops) }
  /\ lastCall = NoCall
  /\ OrderIdle
  /\ PlannerIdle

\* const route = await generateRoute(points, mode)
CallGenerateRoute(mode) ==
  /\ LET r == generateRoute(points, mode)
     IN lastCall' = [mode |-> mode, status |-> r.status, error |-> r.error,
                     route |-> r.route, frame |-> r.frame]
  /\ UNCHANGED << points, orderVars, plannerVars >>

RouteNext == \E mode \in ModeInputs : CallGenerateRoute(mode)

SpecRoute == RouteInit /\ [][RouteNext]_vars

(***************************************************************************)
(* The ordering loop, one iteration per step.                              *)
(***************************************************************************)
OrderInit ==
  /\ origin \in [lat : Grid, lon : Grid]
  /\ stops \in PlaceSeqsUpTo(MaxStops)
  /\ remainingPlaces = << >>
  /\ orderedPlaces = << >>
  /\ currentPoint = [lat |-> 0, lon |-> 0]
  /\ orderPc = "start"
  /\ RouteIdle
  /\ PlannerIdle

\* Lines 109-112.
OrderBegin ==
  /\ orderPc = "start"
  /\ remainingPlaces' = stops
  /\ orderedPlaces' = << >>
  /\ currentPoint' = origin
  /\ orderPc' = "loop"
  /\ UNCHANGED << origin, stops, routeVars, plannerVars >>

\* Lines 114-139, one iteration.
OrderIterate ==
  /\ orderPc = "loop"
  /\ Len(remainingPlaces) > 0
  /\ LET l == OrderBody([remainingPlaces |-> remainingPlaces,
                         orderedPlaces   |-> orderedPlaces,
                         currentPoint    |-> currentPoint])
     IN /\ remainingPlaces' = l.remainingPlaces
        /\ orderedPlaces' = l.orderedPlaces
        /\ currentPoint' = l.currentPoint
  /\ UNCHANGED << origin, stops, orderPc, routeVars, plannerVars >>

\* Line 114 with the pool empty: the loop is left.
OrderEnd ==
  /\ orderPc = "loop"
  /\ Len(remainingPlaces) = 0
  /\ orderPc' = "done"
  /\ UNCHANGED << origin, stops, remainingPlaces, orderedPlaces,
                  currentPoint, routeVars, plannerVars >>

OrderNext == OrderBegin \/ OrderIterate \/ OrderEnd

SpecOrder == OrderInit /\ [][OrderNext]_vars

\* The loop is synchronous code: it keeps running until it is left.
SpecOrderFair == SpecOrder /\ WF_vars(OrderNext)

(***************************************************************************)
(* The ItineraryPlanner component.  A step is one event handled by the     *)
(* page: a click, or a timer that fires together with everything the       *)
(* awaiting handler then runs up to its next timer (continuations of       *)
(* settled promises run before the next event).  A handler works on the    *)
(* state values of the render in which it was created, so each awaiting    *)
(* call carries the selectedPlaces and optimizedRoute it captured.         *)
(***************************************************************************)
\* useState('driving-car'); the selector is left alone.
transportMode == "driving-car"

\* The places prop: n places around the user location.
PlannerCoords == << << 1, 1 >>, << 0, 1 >>, << 1, 0 >>, << 0, 0 >> >>

PlacesProp(n) ==
  [k \in 1..n |-> Place(k, PlannerCoords[k][1], PlannerCoords[k][2])]

\* selectedPlaces.some(p => p.id === place.id)
IsSelected(sel, place) == \E k \in DOMAIN sel : sel[k].id = place.id

\* selectedPlaces.filter(p => p.id !== place.id)
Deselect(sel, place) ==
  LET Other(p) == p.id # place.id IN SelectSeq(sel, Other)

\* The guard of generateItinerary and optimizeRoute with the location
\* test left out.
GuardWithoutLocation(location, sel) == Len(sel) # 0

\* if (!userLocation || selectedPlaces.length === 0) return;  TRUE when
\* the handler goes on.
GuardPasses(location, sel) == location.known /\ Len(sel) # 0

\* The busy flag reset on the success path only.
BusyAfterNoFinally(thrown) == thrown

\* finally { setIsGenerating(false) }: the busy flag after the try
\* statement, whether or not its body threw.
BusyAfter(thrown) == FALSE

\* setTimeout delays in milliseconds, by the handler that awaits.
TimerDelay(timer) == IF timer = "optimize" THEN 2000 ELSE 1500

\* What a handler that has not run its try body hands over: nothing.
NoOutcome ==
  [status |-> "none", route |-> NullRoute, ordered |-> << >>,
   reordered |-> FALSE]

\* An awaiting handler call: the handler clicked (kind), the handler whose
\* timer is pending (timer), the outcome of the try body that runs when
\* the timer fires, and the optimizedRoute handleSubmitItinerary reads at
\* line 178.  The try body reads the userLocation prop and the
\* selectedPlaces and transportMode of the render in which the handler was
\* called, nothing newer, so its outcome is settled when the handler is
\* called; its effects on the state wait for the timer.
Task(kind, timer, outcome, route) ==
  [kind    |-> kind,
   timer   |-> timer,
   outcome |-> IF timer = "submit" THEN NoOutcome ELSE outcome,
   route   |-> IF kind = "submit" THEN route ELSE NullRoute]

\* The form with the buttons is rendered unless the directions are.
FormShown == ~(showDirections /\ optimizedRoute # NullRoute)

\* The try body of generateItinerary after its timer (lines 80-90), for
\* the captured selection sel: thrown, and the Route if not.
GenerateBody(location, sel) ==
  IF ~location.known
  THEN \* userLocation[0] on null
       [status |-> "thrown", route |-> NoRoute, ordered |-> << >>,
        reordered |-> FALSE]
  ELSE LET r == generateRoute(
                  << UserPoint(location.lat, location.lon) >> \o sel,
                  transportMode)
       IN [status |-> r.status, route |-> r.route, ordered |-> << >>,
           reordered |-> FALSE]

\* The try body of optimizeRoute after its timer (lines 109-154): ordered
\* is the value given to setSelectedPlaces at line 141, before the route is
\* generated.
OptimizeBody(location, sel) ==
  IF ~location.known
  THEN [status |-> "thrown", route |-> NoRoute, ordered |-> << >>,
        reordered |-> FALSE]
  ELSE LET l == OrderLoop([remainingPlaces |-> sel,
                           orderedPlaces   |-> << >>,
                           currentPoint    |-> [lat |-> location.lat,
                                                lon |-> location.lon]])
           r == generateRoute(
                  << UserPoint(location.lat, location.lon) >>
                     \o l.orderedPlaces,
                  transportMode)
       IN [status |-> r.status, route |-> r.route,
           ordered |-> l.orderedPlaces, reordered |-> TRUE]

PlannerInit ==
  /\ userLocation \in { NullLocation, [known |-> TRUE, lat |-> 0, lon |-> 0] }
  /\ places \in { PlacesProp(n) : n \in 1..MaxPlaces }
  /\ onRouteGenerated \in BOOLEAN
  /\ selectedPlaces = places      \* the effect of lines 54-57
  /\ optimizedRoute = NullRoute
  /\ isGenerating = FALSE
  /\ isOptimizing = FALSE
  /\ isSubmitting = FALSE
  /\ showDirections = FALSE
  /\ tasks = << >>
  /\ notified = NullRoute
  /\ lastEvent = "other"
  /\ RouteIdle
  /\ OrderIdle

\* togglePlaceSelection (lines 59-67).
TogglePlace(place) ==
  /\ FormShown
  /\ selectedPlaces' = IF IsSelected(selectedPlaces, place)
                       THEN Deselect(selectedPlaces, place)
                       ELSE Append(selectedPlaces, place)
  /\ optimizedRoute' = NullRoute
  /\ lastEvent' = "other"
  /\ UNCHANGED << userLocation, places, onRouteGenerated, isGenerating,
                  isOptimizing, isSubmitting, showDirections, tasks,
                  notified, routeVars, orderVars >>

\* The Select All button: setSelectedPlaces(places).
SelectAll ==
  /\ FormShown
  /\ selectedPlaces' = places
  /\ lastEvent' = "other"
  /\ UNCHANGED << userLocation, places, onRouteGenerated, optimizedRoute,
                  isGenerating, isOptimizing, isSubmitting, showDirections,
                  tasks, notified, routeVars, orderVars >>

\* The Generate button: generateItinerary up to its timer (lines 69-77).
ClickGenerate ==
  /\ FormShown
  /\ ~(isGenerating \/ Len(selectedPlaces) = 0)
  /\ Len(tasks) < MaxInFlight
  /\ lastEvent' = "generate"
  /\ IF GuardPasses(userLocation, selectedPlaces)
     THEN /\ isGenerating' = TRUE
          /\ tasks' = Append(tasks, Task("generate", "generate",
                               GenerateBody(userLocation, selectedPlaces),
                               optimizedRoute))
     ELSE UNCHANGED << isGenerating, tasks >>
  /\ UNCHANGED << userLocation, places, onRouteGenerated, selectedPlaces,
                  optimizedRoute, isOptimizing, isSubmitting,
                  showDirections, notified, routeVars, orderVars >>

\* The Optimize button: optimizeRoute up to its timer (lines 98-105).
ClickOptimize ==
  /\ FormShown
  /\ ~(isOptimizing \/ Len(selectedPlaces) <= 1)
  /\ Len(tasks) < MaxInFlight
  /\ lastEvent' = "optimize"
  /\ IF GuardPasses(userLocation, selectedPlaces)
     THEN /\ isOptimizing' = TRUE
          /\ tasks' = Append(tasks, Task("optimize", "optimize",
                               OptimizeBody(userLocation, selectedPlaces),
                               optimizedRoute))
     ELSE UNCHANGED << isOptimizing, tasks >>
  /\ UNCHANGED << userLocation, places, onRouteGenerated, selectedPlaces,
                  optimizedRoute, isGenerating, isSubmitting,
                  showDirections, notified, routeVars, orderVars >>

\* The Submit button: handleSubmitItinerary up to its first timer, which
\* is the timer of the generateItinerary it calls when there is no route
\* and the guard passes (lines 162-172).
ClickSubmit ==
  /\ FormShown
  /\ ~(isSubmitting \/ Len(selectedPlaces) = 0)
  /\ Len(tasks) < MaxInFlight
  /\ lastEvent' = "other"
  /\ IF optimizedRoute = NullRoute
        /\ GuardPasses(userLocation, selectedPlaces)
     THEN /\ isGenerating' = TRUE
          /\ tasks' = Append(tasks, Task("submit", "generate",
                               GenerateBody(userLocation, selectedPlaces),
                               optimizedRoute))
          /\ UNCHANGED isSubmitting
     ELSE /\ isSubmitting' = TRUE
          /\ tasks' = Append(tasks, Task("submit", "submit", NoOutcome,
                                         optimizedRoute))
          /\ UNCHANGED isGenerating
  /\ UNCHANGED << userLocation, places, onRouteGenerated, selectedPlaces,
                  optimizedRoute, isOptimizing, showDirections, notified,
                  routeVars, orderVars >>

\* A timer fires before every timer set later with the same or a longer
\* delay.
MayFire(i) ==
  \A j \in 1..(i - 1) :
     TimerDelay(tasks[j].timer) > TimerDelay(tasks[i].timer)

\* The timer of generateItinerary fires (lines 77-95).  Called from
\* handleSubmitItinerary, the submission goes on to its own timer (lines
\* 168-172).
GenerateTimerFires(i) ==
  /\ i \in DOMAIN tasks
  /\ tasks[i].timer = "generate"
  /\ MayFire(i)
  /\ LET t == tasks[i]
         b == t.outcome
     IN /\ IF b.status = "returned"
           THEN /\ optimizedRoute' = b.route
                /\ notified' = IF onRouteGenerated THEN b.route ELSE notified
           ELSE UNCHANGED << optimizedRoute, notified >>
        /\ isGenerating' = BusyAfter(b.status = "thrown")
        /\ IF t.kind = "submit"
           THEN /\ isSubmitting' = TRUE
                /\ tasks' = Append(RemoveAt(tasks, i),
                                   Task("submit", "submit", NoOutcome,
                                        t.route))
           ELSE /\ tasks' = RemoveAt(tasks, i)
                /\ UNCHANGED isSubmitting
  /\ lastEvent' = "other"
  /\ UNCHANGED << userLocation, places, onRouteGenerated, selectedPlaces,
                  isOptimizing, showDirections, routeVars, orderVars >>

\* The timer of optimizeRoute fires (lines 105-159).
OptimizeTimerFires(i) ==
  /\ i \in DOMAIN tasks
  /\ tasks[i].timer = "optimize"
  /\ MayFire(i)
  /\ LET b == tasks[i].outcome
     IN /\ selectedPlaces' = IF b.reordered THEN b.ordered
                                            ELSE selectedPlaces
        /\ IF b.status = "returned"
           THEN /\ optimizedRoute' = b.route
                /\ notified' = IF onRouteGenerated THEN b.route ELSE notified
           ELSE UNCHANGED << optimizedRoute, notified >>
        /\ isOptimizing' = BusyAfter(b.status = "thrown")
        /\ tasks' = RemoveAt(tasks, i)
  /\ lastEvent' = "other"
  /\ UNCHANGED << userLocation, places, onRouteGenerated, isGenerating,
                  isSubmitting, showDirections, routeVars, orderVars >>

\* The timer of handleSubmitItinerary fires (lines 172-185); t.route is
\* the optimizedRoute of the render in which Submit was clicked.
SubmitTimerFires(i) ==
  /\ i \in DOMAIN tasks
  /\ tasks[i].timer = "submit"
  /\ MayFire(i)
  /\ LET t == tasks[i]
     IN /\ showDirections' = TRUE
        /\ notified' = IF t.route # NullRoute /\ onRouteGenerated
                       THEN t.route ELSE notified
        /\ isSubmitting' = BusyAfter(FALSE)
        /\ tasks' = RemoveAt(tasks, i)
  /\ lastEvent' = "other"
  /\ UNCHANGED << userLocation, places, onRouteGenerated, selectedPlaces,
                  optimizedRoute, isGenerating, isOptimizing, routeVars,
                  orderVars >>

\* A timer of 1500 ms fires.
ShortTimerFires ==
  \E i \in 1..MaxInFlight : GenerateTimerFires(i) \/ SubmitTimerFires(i)

\* A timer of 2000 ms fires.
LongTimerFires == \E i \in 1..MaxInFlight : OptimizeTimerFires(i)

PlannerNext ==
  \/ \E k \in 1..MaxPlaces : k \in DOMAIN places /\ TogglePlace(places[k])
  \/ SelectAll
  \/ ClickGenerate
  \/ ClickOptimize
  \/ ClickSubmit
  \/ ShortTimerFires
  \/ LongTimerFires

SpecPlanner == PlannerInit /\ [][PlannerNext]_vars

\* Timers fire: the oldest pending timer of either delay does not stay
\* pending for ever.
SpecPlannerFair ==
  SpecPlanner /\ WF_vars(ShortTimerFires) /\ WF_vars(LongTimerFires)

(***************************************************************************)
(* Properties of generateRoute (under SpecRoute).                          *)
(***************************************************************************)
\* generateRoute has been called on points.
Called == lastCall.status # "idle"

\* Duration units (1/DurScale minute) per decimetre at 1 km/h.
DurPerDm == (MinPerHour * DurScale) \div DmPerKm

\* C1: on a point sequence of length n >= 2, with any mode, generateRoute
\* returns a Route with exactly n - 1 steps.
C1_OneStepPerLeg ==
  (Called /\ Len(points) >= 2) =>
     /\ lastCall.status = "returned"
     /\ Len(lastCall.route.steps) = Len(points) - 1

\* C2: on every non-empty point sequence, with any mode, generateRoute
\* completes and returns a Route; it raises no error part-way through a
\* leg.
C2_Total ==
  (Called /\ Len(points) >= 1) =>
     /\ lastCall.status = "returned"
     /\ lastCall.error = "none"

\* C5 as claimed: a mode that names none of the three modes is rejected
\* with an InvalidMode error before any duration is computed.
C5_InvalidModeRejected ==
  (Called /\ lastCall.mode = "hovercraft") =>
     /\ lastCall.status = "thrown"
     /\ lastCall.error = "InvalidMode"
     /\ lastCall.frame.totalDuration = 0

\* C5 as amended: a mode outside the selector's three values is never
\* rejected with an InvalidMode error; the duration is computed with the
\* default speed of 40 km/h, and on fewer than two points the call returns.
C5_UnknownModeDefaults ==
  (Called /\ lastCall.mode \notin SelectorModes) =>
     /\ lastCall.error # "InvalidMode"
     /\ lastCall.frame.totalDuration * 40 =
          lastCall.frame.totalDistance * DurPerDm
     /\ Len(points) < 2 => lastCall.status = "returned"

\* C5 witness: generateRoute has computed a leg of non-zero length for a
\* mode that names no mode.
C5_Witness ==
  /\ Called
  /\ lastCall.mode = "hovercraft"
  /\ lastCall.frame.totalDistance > 0

\* C6 as claimed: with the tokens driving, cycling, walking the unrounded
\* duration is distance / speed * 60 with speed 40, 15, 5 km/h.
C6_BareTokenSpeeds ==
  Called =>
     /\ lastCall.mode = "driving" =>
          lastCall.frame.totalDuration * 40 =
            lastCall.frame.totalDistance * DurPerDm
     /\ lastCall.mode = "cycling" =>
          lastCall.frame.totalDuration * 15 =
            lastCall.frame.totalDistance * DurPerDm
     /\ lastCall.mode = "walking" =>
          lastCall.frame.totalDuration * 5 =
            lastCall.frame.totalDistance * DurPerDm

\* C6 as amended: the unrounded duration is distance / speed * 60 with
\* speed 40, 15, 5 km/h for the tokens 'driving-car', 'cycling-regular',
\* 'foot-walking'; the tokens driving, cycling, walking all get 40 km/h.
C6_SelectorTokenSpeeds ==
  Called =>
     /\ lastCall.mode \in {"driving-car", "driving", "cycling", "walking"} =>
          lastCall.frame.totalDuration * 40 =
            lastCall.frame.totalDistance * DurPerDm
     /\ lastCall.mode = "cycling-regular" =>
          lastCall.frame.totalDuration * 15 =
            lastCall.frame.totalDistance * DurPerDm
     /\ lastCall.mode = "foot-walking" =>
          lastCall.frame.totalDuration * 5 =
            lastCall.frame.totalDistance * DurPerDm

\* C6 witness: a leg of non-zero length has been timed for the walking
\* mode of the selector.
C6_Witness ==
  /\ Called
  /\ lastCall.mode = "foot-walking"
  /\ lastCall.frame.totalDistance > 0
  /\ lastCall.frame.totalDuration > 0

\* Some leg of points has non-zero length.
HasTravel ==
  \E k \in 1..(Len(points) - 1) :
     points[k].lat # points[k + 1].lat \/ points[k].lon # points[k + 1].lon

\* C7: for the same point sequence (with somewhere to go) the Route built
\* for walking right after the one built for driving has a strictly greater
\* duration and the same distance.
C7_WalkingSlower ==
  [][(/\ Called
      /\ HasTravel
      /\ lastCall.mode = "driving-car"
      /\ lastCall'.mode = "foot-walking")
       => (/\ lastCall.status = "returned"
           /\ lastCall'.status = "returned"
           /\ lastCall'.route.duration > lastCall.route.duration
           /\ lastCall'.route.distance = lastCall.route.distance)]_vars

\* C8: on fewer than two points generateRoute returns the empty Route: no
\* steps, distance 0, duration 0, no coordinates.
C8_EmptyRoute ==
  (Called /\ Len(points) < 2) =>
     /\ lastCall.status = "returned"
     /\ lastCall.route =
          [distance |-> 0, duration |-> 0, steps |-> << >>,
           coordinates |-> << >>]

\* C8 witness: generateRoute has been called on the origin alone.
C8_Witness ==
  /\ Called
  /\ Len(points) = 1
  /\ lastCall.status = "returned"

\* C9: the Route's coordinates are the legs' samples in travel order, leg k
\* giving max(5, floor(lengthKm / 0.5)) + 1 points of which every leg but
\* the first drops its first: 1 + (sum of the sample step counts) entries,
\* the first the origin, the last the final stop, none repeated at a leg
\* boundary.
C9_FlattenedCoordinates ==
  (Called /\ Len(points) >= 2) =>
     LET n == Len(points)
         StepsOfLeg(k) ==
           LET km2 == calculateDistance(points[k].lat, points[k].lon,
                                        points[k + 1].lat, points[k + 1].lon)
                        \div SampleSpacing
           IN IF km2 > 5 THEN km2 ELSE 5
         RECURSIVE SumSteps(_)
         SumSteps(k) == IF k = 0 THEN 0 ELSE SumSteps(k - 1) + StepsOfLeg(k)
         c == lastCall.route.coordinates
     IN /\ lastCall.status = "returned"
        /\ Len(c) = 1 + SumSteps(n - 1)
        /\ c[1] = << points[1].lon, points[1].lat, 1 >>
        /\ c[Len(c)] = << points[n].lon, points[n].lat, 1 >>
        /\ \A k \in 1..(n - 2) :
             LET at == 1 + SumSteps(k)
             IN /\ c[at] = << points[k + 1].lon, points[k + 1].lat, 1 >>
                /\ c[at + 1] # c[at]

\* C10: route.distance is within 0.05 km of the sum of the steps' rounded
\* metre distances divided by 1000, for origin + 2 stops and for any number
\* of legs.
C10_DistanceMatchesSteps ==
  (Called /\ Len(points) >= 2) =>
     LET st == lastCall.route.steps
         RECURSIVE SumMetres(_)
         SumMetres(k) ==
           IF k = 0 THEN 0 ELSE SumMetres(k - 1) + st[k].distance
         routeDm == lastCall.route.distance * (DmPerKm \div 10)
         stepsDm == SumMetres(Len(st)) * (DmPerKm \div 1000)
     IN /\ lastCall.status = "returned"
        /\ Len(st) = Len(points) - 1
        /\ routeDm - stepsDm <= DmPerKm \div 20
        /\ stepsDm - routeDm <= DmPerKm \div 20

(***************************************************************************)
(* Properties of the ordering loop (under SpecOrder).                      *)
(***************************************************************************)
\* The bag of the elements of a sequence.
BagOfSeq(seq) ==
  [x \in { seq[k] : k \in DOMAIN seq } |->
     Cardinality({ k \in DOMAIN seq : seq[k] = x })]

\* C3: the loop's output is a permutation of the stops it started from:
\* the same places the same number of times, the same length.
C3_Permutation ==
  orderPc = "done" =>
     /\ Len(orderedPlaces) = Len(stops)
     /\ BagOfSeq(orderedPlaces) = BagOfSeq(stops)
     /\ \A j, k \in DOMAIN orderedPlaces :
          orderedPlaces[j].id = orderedPlaces[k].id => j = k

\* C3 witness: the loop has ended on a list holding two places with equal
\* coordinates, and has changed the order.
C3_Witness ==
  /\ orderPc = "done"
  /\ orderedPlaces # stops
  /\ \E j, k \in DOMAIN stops :
       /\ j # k
       /\ stops[j].lat = stops[k].lat
       /\ stops[j].lon = stops[k].lon

\* The position the next stop is measured from: the origin, then the stop
\* appended last.
Position ==
  IF orderedPlaces = << >> THEN origin
  ELSE [lat |-> orderedPlaces[Len(orderedPlaces)].lat,
        lon |-> orderedPlaces[Len(orderedPlaces)].lon]

\* Distance from Position to the k-th place of the pool.
PoolDistance(k) ==
  calculateDistance(Position.lat, Position.lon,
                    remainingPlaces[k].lat, remainingPlaces[k].lon)

\* C4: every iteration appends a stop of the pool at minimum distance from
\* the current position, the first such stop in pool order, where the
\* current position is the origin and then the stop appended before.
C4_NearestFirst ==
  [][(orderPc = "loop" /\ orderPc' = "loop")
       => \E k \in DOMAIN remainingPlaces :
            /\ orderedPlaces' = Append(orderedPlaces, remainingPlaces[k])
            /\ \A m \in DOMAIN remainingPlaces :
                 PoolDistance(m) >= PoolDistance(k)
            /\ \A m \in 1..(k - 1) : PoolDistance(m) > PoolDistance(k)
            /\ currentPoint = Position]_vars

\* C4 witness: the first stop was chosen from the origin while another
\* stop, later in the pool, was at the same distance.
C4_Witness ==
  /\ orderPc = "loop"
  /\ Len(orderedPlaces) = 1
  /\ \E k \in DOMAIN remainingPlaces :
       /\ remainingPlaces[k].id > orderedPlaces[1].id
       /\ calculateDistance(origin.lat, origin.lon,
                            remainingPlaces[k].lat, remainingPlaces[k].lon)
            = calculateDistance(origin.lat, origin.lon,
                                orderedPlaces[1].lat, orderedPlaces[1].lon)

\* C13: every iteration moves exactly one stop from the pool to the output,
\* so the two lengths add up to the input size n throughout, and the loop
\* ends, after n iterations, with the pool empty and n stops in the output
\* (none for no stops, the one stop for a single stop).
C13_LoopTerminates ==
  /\ [](orderPc = "loop" =>
          Len(orderedPlaces) + Len(remainingPlaces) = Len(stops))
  /\ [][(orderPc = "loop" /\ orderPc' = "loop")
          => /\ Len(remainingPlaces') = Len(remainingPlaces) - 1
             /\ Len(orderedPlaces') = Len(orderedPlaces) + 1]_vars
  /\ <>(/\ orderPc = "done"
        /\ remainingPlaces = << >>
        /\ Len(orderedPlaces) = Len(stops))

\* C13 witness: the loop has ended after three iterations.
C13_Witness ==
  /\ orderPc = "done"
  /\ Len(stops) = 3
  /\ Len(orderedPlaces) = 3

(***************************************************************************)
(* Properties of the planner (under SpecPlanner and SpecPlannerFair).      *)
(***************************************************************************)
\* C11: a click on Generate or Optimize while userLocation is null or
\* nothing is selected changes neither optimizedRoute nor selectedPlaces
\* nor a busy flag, starts no handler and calls onRouteGenerated with
\* nothing.
C11_NoRouteWithoutInputs ==
  [][(/\ lastEvent' \in {"generate", "optimize"}
      /\ (~userLocation.known \/ Len(selectedPlaces) = 0))
       => UNCHANGED << optimizedRoute, selectedPlaces, isGenerating,
                       isOptimizing, isSubmitting, showDirections, tasks,
                       notified >>]_vars

\* C11 witness: Generate was clicked with places selected and no user
\* location, and nothing is awaiting.
C11_Witness ==
  /\ lastEvent = "generate"
  /\ ~userLocation.known
  /\ Len(selectedPlaces) > 0
  /\ tasks = << >>
  /\ ~isGenerating
  /\ optimizedRoute = NullRoute

\* The steps of route form a chain that starts at the origin.
IsChain(route, location) ==
  /\ Len(route.steps) >= 1
  /\ route.steps[1].fromPlace = "Your Location"
  /\ route.steps[1].startLocation = << location.lat, location.lon >>
  /\ \A k \in DOMAIN route.steps :
       /\ route.steps[k].toPlace # "Your Location"
       /\ k > 1 => /\ route.steps[k - 1].endLocation
                       = route.steps[k].startLocation
                  /\ route.steps[k - 1].toPlace = route.steps[k].fromPlace

\* C12: when generateItinerary or optimizeRoute finishes, with the user
\* location known, it has built a Route whose steps form a chain: the
\* first step leaves "Your Location" at the user location, every later
\* step starts where the one before ended, and the origin is never a
\* destination; after optimizeRoute the destinations are the selected
\* places in their new order.
C12_StepsChain ==
  [][\A i \in DOMAIN tasks :
       (/\ userLocation.known
        /\ tasks[i].timer # "submit"
        /\ \/ tasks' = RemoveAt(tasks, i)
           \/ tasks' = Append(RemoveAt(tasks, i),
                              Task("submit", "submit", NoOutcome,
                                   tasks[i].route)))
         => /\ optimizedRoute' # NullRoute
            /\ IsChain(optimizedRoute', userLocation)
            /\ tasks[i].timer = "optimize"
                 => /\ Len(optimizedRoute'.steps) = Len(selectedPlaces')
                    /\ \A k \in DOMAIN selectedPlaces' :
                         optimizedRoute'.steps[k].toPlace
                           = selectedPlaces'[k].name]_vars

\* The ids of the places of a sequence.
Ids(sel) == { sel[k].id : k \in DOMAIN sel }

\* C15: when optimizeRoute finishes, the set of selected place ids is the
\* set selected just before, toggles made during its wait included.
C15_SelectionKept ==
  [][(isOptimizing /\ ~isOptimizing')
       => Ids(selectedPlaces') = Ids(selectedPlaces)]_vars

\* C16: when a handleSubmitItinerary that was started with no route (places
\* selected, user location known) completes, optimizedRoute is a Route,
\* showDirections is true and onRouteGenerated, if given, was last called
\* with that Route.
C16_SubmitGeneratesRoute ==
  [][\A i \in DOMAIN tasks :
       (/\ userLocation.known
        /\ tasks[i].timer = "submit"
        /\ tasks[i].route = NullRoute
        /\ tasks' = RemoveAt(tasks, i))
         => /\ optimizedRoute' # NullRoute
            /\ showDirections'
            /\ onRouteGenerated => notified' = optimizedRoute']_vars

\* The generateItinerary calls awaiting their timer.
GeneratingTasks == { i \in DOMAIN tasks : tasks[i].timer = "generate" }

\* C17: isGenerating is true exactly while a generateItinerary call is in
\* flight, and at most one is in flight.
C17_OneGenerateAtATime ==
  /\ isGenerating <=> GeneratingTasks # { }
  /\ Cardinality(GeneratingTasks) <= 1

\* C18: a busy flag that is true becomes false again, and while it is true
\* a handler that will reset it is awaiting its timer.
C18_BusyFlagsReset ==
  /\ isGenerating ~> ~isGenerating
  /\ isOptimizing ~> ~isOptimizing
  /\ isSubmitting ~> ~isSubmitting
  /\ [](isGenerating => \E i \in DOMAIN tasks : tasks[i].timer = "generate")
  /\ [](isOptimizing => \E i \in DOMAIN tasks : tasks[i].timer = "optimize")
  /\ [](isSubmitting => \E i \in DOMAIN tasks : tasks[i].timer = "submit")

\* C18 witness: a generateItinerary whose route generation threw has reset
\* isGenerating, inside a submission that goes on.
C18_Witness ==
  /\ userLocation.known
  /\ ~isGenerating
  /\ isSubmitting
  /\ optimizedRoute = NullRoute
  /\ \E i \in DOMAIN tasks : tasks[i].timer = "submit"

====
